---- MODULE Spec2Model ----
(***************************************************************************)
(* Friends List API: index.js (credential store, session-backed JWT login, *)
(* auth gate) and router/friends.js (the in-memory Friend Store).          *)
(*                                                                         *)
(* One action per HTTP handler.  Every action is the whole middleware      *)
(* chain of the request: express-session loads the session of the cookie   *)
(* the client presents, the handler (behind authMiddleware for /friends)   *)
(* runs, and at the end of the response express-session saves or touches   *)
(* the session.                                                            *)
(*                                                                         *)
(* The router file holds two router definitions one after the other; the   *)
(* file's last `module.exports = router` exports the second one, so the    *)
(* handlers of lines 305-638 are the mounted ones; the handlers of the     *)
(* first router (lines 44-210) are bound to a router that is not exported. *)
(***************************************************************************)
EXTENDS Integers, Sequences, FiniteSets, TLC

(***************************************************************************)
(* JavaScript values.  A string is a sequence of tokens, where '@' and '.' *)
(* are tokens of their own, so that String.prototype.includes is computed. *)
(***************************************************************************)
Undefined == [t |-> "undefined", s |-> <<>>]
Null == [t |-> "null", s |-> <<>>]
Str(toks) == [t |-> "string", s |-> toks]
Num(tok) == [t |-> "number", s |-> <<tok>>]
\* an array of strings, each element one token
Arr(elems) == [t |-> "array", s |-> elems]

\* !v is FALSE exactly for the truthy values
Truthy(v) ==
    CASE v.t = "string" -> v.s # <<>>
      [] v.t = "number" -> v.s # <<"0">>
      [] v.t = "array" -> TRUE
      [] OTHER -> FALSE

\* v.includes(tok): for a string v, tok is a substring of it; for an array
\* v, tok is one of its elements
Includes(v, tok) == \E i \in 1..Len(v.s) : v.s[i] = tok

\* whether v has an `includes` method (String.prototype, Array.prototype)
HasIncludes(v) == v.t \in {"string", "array"}

RECURSIVE Join(_)
\* elems.join(",")
Join(elems) ==
    IF Len(elems) <= 1 THEN elems
    ELSE <<Head(elems), ",">> \o Join(Tail(elems))

\* the property key obj[v] uses: String(v)
KeyOf(v) == IF v.t = "array" THEN Join(v.s) ELSE v.s

(***************************************************************************)
(* Bounds and program constants                                            *)
(***************************************************************************)
MaxTicks == 3
MaxUsers == 2

ExpiresIn == 60 * 60              \* jwt.sign expiresIn, seconds
MaxAge == 60 * 60 * 1000          \* session cookie maxAge, milliseconds
SignSecret == "access"            \* jwt.sign secret
VerifySecret == "access"          \* jwt.verify secret

\* the clock advances in steps of half a token lifetime
Step == ExpiresIn \div 2

Clients == {"c1", "c2"}

VARIABLES
    users,      \* index.js `users`: sequence of {username, password, createdAt}
    sessions,   \* express-session MemoryStore, by the cookie a client presents
    friends,    \* router/friends.js `friends`: email -> {firstName, lastName, DOB}
    inherited,  \* the properties the handlers have set on the members of
                \* Object.prototype that `friends[email]` reaches
    replay,     \* for every email created: the record of the create request
                \* with the changed fields each later update reported
    now,        \* the clock, in seconds
    last        \* the last request handled: the request, the req.session the
                \* session middleware loaded for it, and the response it got

vars == <<users, sessions, friends, inherited, replay, now, last>>

NowMs == now * 1000

(***************************************************************************)
(* Credential store                                                        *)
(***************************************************************************)
\* doesExist comparing the wrong property of the stored user
doesExistWrongField(username) ==
    \E i \in 1..Len(users) : users[i].password = username

doesExist(username) ==
    \E i \in 1..Len(users) : users[i].username = username

\* authenticatedUser that never looks at the password
authenticatedUserNameOnly(username, password) ==
    \E i \in 1..Len(users) : users[i].username = username

authenticatedUser(username, password) ==
    \E i \in 1..Len(users) :
        users[i].username = username /\ users[i].password = password

(***************************************************************************)
(* jsonwebtoken                                                            *)
(***************************************************************************)
\* jwt.sign(payload, secret, {expiresIn}): iat is the current second
jwtSign(payload, secret, expiresIn) ==
    [username |-> payload.username, data |-> payload.data,
     iat |-> now, exp |-> now + expiresIn, key |-> secret]

\* jwt.verify that ignores the expiry of the token
jwtVerifyErrNoExpiry(token, secret) ==
    token.key # secret

\* jwt.verify that does not check the signature
jwtVerifyErrNoSignature(token, secret) ==
    now >= token.exp

\* jwt.verify: err when the signature does not match or the clock has
\* reached exp (clockTimestamp >= exp)
jwtVerifyErr(token, secret) ==
    \/ token.key # secret
    \/ now >= token.exp

jwtDecoded(token) ==
    [username |-> token.username, data |-> token.data,
     iat |-> token.iat, exp |-> token.exp]

(***************************************************************************)
(* express-session with the default MemoryStore                            *)
(***************************************************************************)
NoSession == [stored |-> FALSE]

\* the req.session of a request that presents no stored, unexpired session
FreshSession == [authorization |-> Undefined]

\* MemoryStore.get: a session whose cookie has expired is purged and absent
Expired(sid) ==
    sessions[sid].stored /\ sessions[sid].expires <= NowMs

\* the expiry of the session stored for sid lies in the past
Lapsed(sid) == sessions[sid].stored /\ NowMs > sessions[sid].expires

\* a session middleware that hands out a stored session whatever its expiry
LoadSessionIgnoresExpiry(sid) ==
    IF sessions[sid].stored
    THEN [authorization |-> sessions[sid].authorization]
    ELSE FreshSession

\* req.session as the session middleware hands it to the handlers
LoadSession(sid) ==
    IF sessions[sid].stored /\ ~Expired(sid)
    THEN [authorization |-> sessions[sid].authorization]
    ELSE FreshSession

\* End of the response: with saveUninitialized false a session is stored only
\* once it carries data; a stored session's cookie is touched (its expiry is
\* reset to now + maxAge)
EndRequest(sid, sess) ==
    IF sess.authorization = Undefined
    THEN [sessions EXCEPT ![sid] = NoSession]
    ELSE [sessions EXCEPT ![sid] =
            [stored |-> TRUE, authorization |-> sess.authorization,
             expires |-> NowMs + MaxAge]]

\* a logout that leaves the stored session in place
DestroySessionKeep(sid) == sessions

\* a destroy that deletes every session of the user the session belongs to
DestroySessionOfUser(sid) ==
    [c \in Clients |->
        IF c = sid
           \/ (/\ sessions[sid].stored
               /\ sessions[c].stored
               /\ sessions[c].authorization.username
                     = sessions[sid].authorization.username)
        THEN NoSession
        ELSE sessions[c]]

\* req.session.destroy: MemoryStore.destroy deletes the entry
DestroySession(sid) == [sessions EXCEPT ![sid] = NoSession]

(***************************************************************************)
(* Responses                                                               *)
(***************************************************************************)
Fail(status, message) ==
    [status |-> status, success |-> FALSE, message |-> message]

Ok(status, message) ==
    [status |-> status, success |-> TRUE, message |-> message]

(***************************************************************************)
(* authMiddleware                                                          *)
(***************************************************************************)
\* authMiddleware without the `!req.session.authorization` test: jwt.verify
\* then fails on the missing token
authMiddlewareNoSessionCheck(sess) ==
    IF sess.authorization = Undefined
    THEN [outcome |-> "403", session |-> sess,
          resp |-> Fail(403, "Session expired or invalid. Please login again.")]
    ELSE IF jwtVerifyErr(sess.authorization.accessToken, VerifySecret)
    THEN [outcome |-> "403", session |-> sess,
          resp |-> Fail(403, "Session expired or invalid. Please login again.")]
    ELSE [outcome |-> "next", session |-> sess,
          user |-> [username |-> sess.authorization.username,
                    data |-> jwtDecoded(sess.authorization.accessToken).data]]

\* authMiddleware that deletes req.session.authorization when jwt.verify fails
authMiddlewareClearsSession(sess) ==
    IF sess.authorization = Undefined
    THEN [outcome |-> "401", session |-> sess,
          resp |-> Fail(401, "Authentication required. Please login first.")]
    ELSE LET token == sess.authorization.accessToken
             username == sess.authorization.username
         IN  IF jwtVerifyErr(token, VerifySecret)
             THEN [outcome |-> "403", session |-> FreshSession,
                   resp |-> Fail(403, "Session expired or invalid. Please login again.")]
             ELSE [outcome |-> "next", session |-> sess,
                   user |-> [username |-> username,
                             data |-> jwtDecoded(token).data]]

\* authMiddleware that attaches the whole decoded payload as req.user.data
authMiddlewareWholePayload(sess) ==
    IF sess.authorization = Undefined
    THEN [outcome |-> "401", session |-> sess,
          resp |-> Fail(401, "Authentication required. Please login first.")]
    ELSE LET token == sess.authorization.accessToken
             username == sess.authorization.username
         IN  IF jwtVerifyErr(token, VerifySecret)
             THEN [outcome |-> "403", session |-> sess,
                   resp |-> Fail(403, "Session expired or invalid. Please login again.")]
             ELSE [outcome |-> "next", session |-> sess,
                   user |-> [username |-> username,
                             data |-> jwtDecoded(token)]]

\* the outcome of the gate for a request whose req.session is sess: the
\* response it sends or the req.user it attaches before next(), and
\* req.session as the gate leaves it (it assigns nothing to it)
authMiddleware(sess) ==
    IF sess.authorization = Undefined
    THEN [outcome |-> "401", session |-> sess,
          resp |-> Fail(401, "Authentication required. Please login first.")]
    ELSE LET token == sess.authorization.accessToken
             username == sess.authorization.username
         IN  IF jwtVerifyErr(token, VerifySecret)
             THEN [outcome |-> "403", session |-> sess,
                   resp |-> Fail(403, "Session expired or invalid. Please login again.")]
             ELSE [outcome |-> "next", session |-> sess,
                   user |-> [username |-> username,
                             data |-> jwtDecoded(token).data]]

(***************************************************************************)
(* POST /register                                                          *)
(***************************************************************************)
\* POST /register that tests the username only
RegisterNoPasswordTest(sid, username, password) ==
    LET sess == LoadSession(sid)
        req == [op |-> "register", sid |-> sid, session |-> sess,
                body |-> [username |-> username, password |-> password]]
    IN  /\ sessions' = EndRequest(sid, sess)
        /\ UNCHANGED <<friends, inherited, replay, now>>
        /\ IF ~Truthy(username)
           THEN /\ users' = users
                /\ last' = [req |-> req,
                            resp |-> Fail(400, "Username and password are required.")]
           ELSE IF doesExist(username)
           THEN /\ users' = users
                /\ last' = [req |-> req,
                            resp |-> Fail(409, "Username already exists. Please choose a different username.")]
           ELSE /\ Len(users) < MaxUsers
                /\ users' = Append(users, [username |-> username,
                                           password |-> password,
                                           createdAt |-> NowMs])
                /\ last' = [req |-> req,
                            resp |-> Ok(201, "User registered successfully. You can now login.")]

\* POST /register without the doesExist test
RegisterNoDuplicateTest(sid, username, password) ==
    LET sess == LoadSession(sid)
        req == [op |-> "register", sid |-> sid, session |-> sess,
                body |-> [username |-> username, password |-> password]]
    IN  /\ sessions' = EndRequest(sid, sess)
        /\ UNCHANGED <<friends, inherited, replay, now>>
        /\ IF ~Truthy(username) \/ ~Truthy(password)
           THEN /\ users' = users
                /\ last' = [req |-> req,
                            resp |-> Fail(400, "Username and password are required.")]
           ELSE /\ Len(users) < MaxUsers
                /\ users' = Append(users, [username |-> username,
                                           password |-> password,
                                           createdAt |-> NowMs])
                /\ last' = [req |-> req,
                            resp |-> Ok(201, "User registered successfully. You can now login.")]

Register(sid, username, password) ==
    LET sess == LoadSession(sid)
        req == [op |-> "register", sid |-> sid, session |-> sess,
                body |-> [username |-> username, password |-> password]]
    IN  /\ sessions' = EndRequest(sid, sess)
        /\ UNCHANGED <<friends, inherited, replay, now>>
        /\ IF ~Truthy(username) \/ ~Truthy(password)
           THEN /\ users' = users
                /\ last' = [req |-> req,
                            resp |-> Fail(400, "Username and password are required.")]
           ELSE IF doesExist(username)
           THEN /\ users' = users
                /\ last' = [req |-> req,
                            resp |-> Fail(409, "Username already exists. Please choose a different username.")]
           ELSE /\ Len(users) < MaxUsers
                /\ users' = Append(users, [username |-> username,
                                           password |-> password,
                                           createdAt |-> NowMs])
                /\ last' = [req |-> req,
                            resp |-> Ok(201, "User registered successfully. You can now login.")]

(***************************************************************************)
(* POST /login                                                             *)
(***************************************************************************)
\* POST /login that drops the authorization of the session when it fails
LoginFailureClearsSession(sid, username, password) ==
    LET sess == LoadSession(sid)
        req == [op |-> "login", sid |-> sid, session |-> sess,
                body |-> [username |-> username, password |-> password]]
    IN  /\ UNCHANGED <<users, friends, inherited, replay, now>>
        /\ IF ~Truthy(username) \/ ~Truthy(password)
           THEN /\ sessions' = EndRequest(sid, FreshSession)
                /\ last' = [req |-> req,
                            resp |-> Fail(400, "Username and password are required.")]
           ELSE IF ~authenticatedUser(username, password)
           THEN /\ sessions' = EndRequest(sid, FreshSession)
                /\ last' = [req |-> req,
                            resp |-> Fail(401, "Invalid username or password.")]
           ELSE LET accessToken ==
                        jwtSign([username |-> username, data |-> password],
                                SignSecret, ExpiresIn)
                    sess2 == [authorization |->
                                [accessToken |-> accessToken,
                                 username |-> username]]
                IN  /\ sessions' = EndRequest(sid, sess2)
                    /\ last' = [req |-> req,
                                resp |-> [status |-> 200, success |-> TRUE,
                                          message |-> "Login successful",
                                          data |-> [username |-> username,
                                                    tokenExpiresIn |-> "1 hour"]]]

\* POST /login that leaves an authorization the session already holds in place
LoginKeepsExisting(sid, username, password) ==
    LET sess == LoadSession(sid)
        req == [op |-> "login", sid |-> sid, session |-> sess,
                body |-> [username |-> username, password |-> password]]
    IN  /\ UNCHANGED <<users, friends, inherited, replay, now>>
        /\ IF ~Truthy(username) \/ ~Truthy(password)
           THEN /\ sessions' = EndRequest(sid, sess)
                /\ last' = [req |-> req,
                            resp |-> Fail(400, "Username and password are required.")]
           ELSE IF ~authenticatedUser(username, password)
           THEN /\ sessions' = EndRequest(sid, sess)
                /\ last' = [req |-> req,
                            resp |-> Fail(401, "Invalid username or password.")]
           ELSE LET accessToken ==
                        jwtSign([username |-> username, data |-> password],
                                SignSecret, ExpiresIn)
                    sess2 == IF sess.authorization # Undefined
                             THEN sess
                             ELSE [authorization |->
                                     [accessToken |-> accessToken,
                                      username |-> username]]
                IN  /\ sessions' = EndRequest(sid, sess2)
                    /\ last' = [req |-> req,
                                resp |-> [status |-> 200, success |-> TRUE,
                                          message |-> "Login successful",
                                          data |-> [username |-> username,
                                                    tokenExpiresIn |-> "1 hour"]]]

Login(sid, username, password) ==
    LET sess == LoadSession(sid)
        req == [op |-> "login", sid |-> sid, session |-> sess,
                body |-> [username |-> username, password |-> password]]
    IN  /\ UNCHANGED <<users, friends, inherited, replay, now>>
        /\ IF ~Truthy(username) \/ ~Truthy(password)
           THEN /\ sessions' = EndRequest(sid, sess)
                /\ last' = [req |-> req,
                            resp |-> Fail(400, "Username and password are required.")]
           ELSE IF ~authenticatedUser(username, password)
           THEN /\ sessions' = EndRequest(sid, sess)
                /\ last' = [req |-> req,
                            resp |-> Fail(401, "Invalid username or password.")]
           ELSE LET accessToken ==
                        jwtSign([username |-> username, data |-> password],
                                SignSecret, ExpiresIn)
                    sess2 == [authorization |->
                                [accessToken |-> accessToken,
                                 username |-> username]]
                IN  /\ sessions' = EndRequest(sid, sess2)
                    /\ last' = [req |-> req,
                                resp |-> [status |-> 200, success |-> TRUE,
                                          message |-> "Login successful",
                                          data |-> [username |-> username,
                                                    tokenExpiresIn |-> "1 hour"]]]

(***************************************************************************)
(* POST /logout                                                            *)
(***************************************************************************)
\* a store whose destroy reports an error when it holds no session for sid
DestroyErrWhenAbsent(sid) == ~sessions[sid].stored

\* the `err` that req.session.destroy hands to its callback: MemoryStore's
\* destroy deletes the entry, if there is one, and reports no error
DestroyErr(sid) == FALSE

\* `last` also records whether the session store held a session for the
\* request
Logout(sid) ==
    LET req == [op |-> "logout", sid |-> sid, session |-> LoadSession(sid),
                stored |-> sessions[sid].stored /\ ~Expired(sid)]
    IN  /\ sessions' = DestroySession(sid)
        /\ IF DestroyErr(sid)
           THEN last' = [req |-> req,
                         resp |-> Fail(500, "Error logging out. Please try again.")]
           ELSE last' = [req |-> req,
                         resp |-> Ok(200, "Logout successful")]
        /\ UNCHANGED <<users, friends, inherited, replay, now>>

(***************************************************************************)
(* GET /health                                                             *)
(***************************************************************************)
Health(sid) ==
    /\ sessions' = EndRequest(sid, LoadSession(sid))
    /\ last' = [req |-> [op |-> "health", sid |-> sid,
                         session |-> LoadSession(sid)],
                resp |-> [status |-> 200, success |-> TRUE,
                          message |-> "Friends API Server is running",
                          timestamp |-> NowMs, version |-> "1.0.0"]]
    /\ UNCHANGED <<users, friends, inherited, replay, now>>

(***************************************************************************)
(* router/friends.js: the Friend Store handlers.  Each returns the store   *)
(* after the handler and the response it sends.                            *)
(***************************************************************************)
John == <<"johnsmith", "@", "gmail", ".", "com">>
Anna == <<"annasmith", "@", "gmail", ".", "com">>
Peter == <<"peterjones", "@", "gmail", ".", "com">>

InitialFriends ==
    (John :> [firstName |-> Str(<<"John">>), lastName |-> Str(<<"Doe">>),
              DOB |-> Str(<<"22-12-1990">>)])
    @@ (Anna :> [firstName |-> Str(<<"Anna">>), lastName |-> Str(<<"Smith">>),
                 DOB |-> Str(<<"02-07-1983">>)])
    @@ (Peter :> [firstName |-> Str(<<"Peter">>), lastName |-> Str(<<"Jones">>),
                  DOB |-> Str(<<"21-03-1989">>)])

Fields == {"firstName", "lastName", "DOB"}

\* `friends` is an object literal, so friends[email] also reaches the
\* members of Object.prototype; those named here are functions
PrototypeKeys ==
    {<<"constructor">>, <<"toString">>, <<"valueOf">>, <<"hasOwnProperty">>}

\* friends["__proto__"] is Object.prototype itself
ProtoKey == <<"__proto__">>

\* an object on which none of the three properties has been set
NoProps == [firstName |-> Undefined, lastName |-> Undefined, DOB |-> Undefined]

\* the firstName, lastName and DOB properties that have been set on
\* Object.prototype, which every object without an own property of that
\* name inherits
ObjectPrototype == inherited[ProtoKey]

\* obj.f for an object whose own properties are obj: the own property, else
\* the one inherited from Object.prototype
Read(obj, f) == IF obj[f] # Undefined THEN obj[f] ELSE ObjectPrototype[f]

\* what friends[email] is: a record of the store, a function member of
\* Object.prototype, Object.prototype itself, a primitive value that has
\* been set on Object.prototype under the name email, or undefined
KindIn(store, email) ==
    CASE email \in DOMAIN store -> "record"
      [] email \in PrototypeKeys -> "function"
      [] email = ProtoKey -> "prototype"
      [] \E f \in Fields : email = <<f>> /\ ObjectPrototype[f] # Undefined
            -> "primitive"
      [] OTHER -> "undefined"

Kind(email) == KindIn(friends, email)

\* friends[email] when it is a primitive value
Primitive(email) == ObjectPrototype[email[1]]

\* friends[email] is truthy
HasFriend(email) ==
    CASE Kind(email) = "undefined" -> FALSE
      [] Kind(email) = "primitive" -> Truthy(Primitive(email))
      [] OTHER -> TRUE

\* the own firstName, lastName and DOB properties of friends[email]
Own(email) ==
    CASE Kind(email) = "record" -> friends[email]
      [] Kind(email) \in {"function", "prototype"} -> inherited[email]
      [] OTHER -> NoProps

\* friends[email].firstName, .lastName and .DOB
Value(email) == [f \in Fields |-> Read(Own(email), f)]

\* { ...friends[email] }: the own enumerable properties; of a string, its
\* characters by index
Spread(email) ==
    IF Kind(email) = "primitive" THEN Primitive(email).s ELSE Own(email)

\* delete friends[email]
Without(f, email) == [k \in DOMAIN f \ {email} |-> f[k]]

\* Object.keys(friends).length
KeyCount(f) == Cardinality(DOMAIN f)

\* GET /friends
\* GET /friends as the first definition of the router answers it, without a
\* message
routerGetAllNoMessage ==
    [friends |-> friends,
     resp |-> [status |-> 200, success |-> TRUE, data |-> friends,
               count |-> KeyCount(friends)]]

routerGetAll ==
    [friends |-> friends,
     resp |-> [status |-> 200, success |-> TRUE, data |-> friends,
               count |-> KeyCount(friends),
               message |-> "Successfully retrieved ${count} friend(s)"]]

\* GET /friends/:email: the response, given the store
getEmailResponse(store, email) ==
    LET kind == KindIn(store, email)
        found(data) ==
            [status |-> 200, success |-> TRUE, data |-> data,
             message |-> "Friend '${email}' retrieved successfully"]
        notFound == Fail(404, "Friend with email '${email}' not found")
    IN  CASE kind = "record" -> found(store[email])
          \* data is a function, which JSON.stringify leaves out of the body
          [] kind = "function"
                -> [status |-> 200, success |-> TRUE,
                    message |-> "Friend '${email}' retrieved successfully"]
          [] kind = "prototype" -> found(inherited[email])
          [] kind = "primitive"
                -> IF Truthy(Primitive(email))
                   THEN found(Primitive(email)) ELSE notFound
          [] OTHER -> notFound

\* GET /friends/:email
routerGetEmail(email) ==
    [friends |-> friends, resp |-> getEmailResponse(friends, email)]

\* `const { email, firstName, lastName, DOB } = req.body` reads the three
\* fields through Read: a field the body lacks is taken from Object.prototype

\* POST /friends without the duplicate check: an existing record is overwritten
routerPostOverwrite(body) ==
    IF ~Truthy(body.email) \/ ~Truthy(Read(body, "firstName"))
       \/ ~Truthy(Read(body, "lastName")) \/ ~Truthy(Read(body, "DOB"))
    THEN [friends |-> friends,
          resp |-> Fail(400, "All fields are required: email, firstName, lastName, DOB")]
    ELSE IF ~HasIncludes(body.email)
    THEN [friends |-> friends,
          resp |-> Fail(500, "Internal server error while creating friend")]
    ELSE IF ~Includes(body.email, "@") \/ ~Includes(body.email, ".")
    THEN [friends |-> friends,
          resp |-> Fail(400, "Please provide a valid email address")]
    ELSE LET record == [firstName |-> Read(body, "firstName"),
                        lastName |-> Read(body, "lastName"), DOB |-> Read(body, "DOB")]
             after == (KeyOf(body.email) :> record) @@ friends
         IN  [friends |-> after,
              resp |-> [status |-> 201, success |-> TRUE,
                        message |-> "Friend created successfully",
                        data |-> after[KeyOf(body.email)]]]

\* POST /friends whose presence test leaves DOB out
routerPostNoDOBTest(body) ==
    IF ~Truthy(body.email) \/ ~Truthy(Read(body, "firstName")) \/ ~Truthy(Read(body, "lastName"))
    THEN [friends |-> friends,
          resp |-> Fail(400, "All fields are required: email, firstName, lastName, DOB")]
    ELSE IF ~HasIncludes(body.email)
    THEN [friends |-> friends,
          resp |-> Fail(500, "Internal server error while creating friend")]
    ELSE IF ~Includes(body.email, "@") \/ ~Includes(body.email, ".")
    THEN [friends |-> friends,
          resp |-> Fail(400, "Please provide a valid email address")]
    ELSE IF HasFriend(KeyOf(body.email))
    THEN [friends |-> friends,
          resp |-> Fail(400, "Friend with email '${email}' already exists")]
    ELSE LET record == [firstName |-> Read(body, "firstName"),
                        lastName |-> Read(body, "lastName"), DOB |-> Read(body, "DOB")]
             after == (KeyOf(body.email) :> record) @@ friends
         IN  [friends |-> after,
              resp |-> [status |-> 201, success |-> TRUE,
                        message |-> "Friend created successfully",
                        data |-> after[KeyOf(body.email)]]]

\* POST /friends without the try/catch: the TypeError of `email.includes`
\* reaches the default error handler of Express, which answers 500 with an
\* HTML page
routerPostUncaught(body) ==
    IF ~Truthy(body.email) \/ ~Truthy(Read(body, "firstName"))
       \/ ~Truthy(Read(body, "lastName")) \/ ~Truthy(Read(body, "DOB"))
    THEN [friends |-> friends,
          resp |-> Fail(400, "All fields are required: email, firstName, lastName, DOB")]
    ELSE IF ~HasIncludes(body.email)
    THEN [friends |-> friends,
          resp |-> [status |-> 500,
                    html |-> "TypeError: email.includes is not a function"]]
    ELSE IF ~Includes(body.email, "@") \/ ~Includes(body.email, ".")
    THEN [friends |-> friends,
          resp |-> Fail(400, "Please provide a valid email address")]
    ELSE IF HasFriend(KeyOf(body.email))
    THEN [friends |-> friends,
          resp |-> Fail(400, "Friend with email '${email}' already exists")]
    ELSE LET record == [firstName |-> Read(body, "firstName"),
                        lastName |-> Read(body, "lastName"), DOB |-> Read(body, "DOB")]
             after == (KeyOf(body.email) :> record) @@ friends
         IN  [friends |-> after,
              resp |-> [status |-> 201, success |-> TRUE,
                        message |-> "Friend created successfully",
                        data |-> after[KeyOf(body.email)]]]

\* POST /friends whose email test asks for '@' only
routerPostAtOnly(body) ==
    IF ~Truthy(body.email) \/ ~Truthy(Read(body, "firstName"))
       \/ ~Truthy(Read(body, "lastName")) \/ ~Truthy(Read(body, "DOB"))
    THEN [friends |-> friends,
          resp |-> Fail(400, "All fields are required: email, firstName, lastName, DOB")]
    ELSE IF ~HasIncludes(body.email)
    THEN [friends |-> friends,
          resp |-> Fail(500, "Internal server error while creating friend")]
    ELSE IF ~Includes(body.email, "@")
    THEN [friends |-> friends,
          resp |-> Fail(400, "Please provide a valid email address")]
    ELSE IF HasFriend(KeyOf(body.email))
    THEN [friends |-> friends,
          resp |-> Fail(400, "Friend with email '${email}' already exists")]
    ELSE LET record == [firstName |-> Read(body, "firstName"),
                        lastName |-> Read(body, "lastName"), DOB |-> Read(body, "DOB")]
             after == (KeyOf(body.email) :> record) @@ friends
         IN  [friends |-> after,
              resp |-> [status |-> 201, success |-> TRUE,
                        message |-> "Friend created successfully",
                        data |-> after[KeyOf(body.email)]]]

\* POST /friends
routerPost(body) ==
    IF ~Truthy(body.email) \/ ~Truthy(Read(body, "firstName"))
       \/ ~Truthy(Read(body, "lastName")) \/ ~Truthy(Read(body, "DOB"))
    THEN [friends |-> friends,
          resp |-> Fail(400, "All fields are required: email, firstName, lastName, DOB")]
    ELSE IF ~HasIncludes(body.email)
    \* email.includes is not a function: the TypeError is caught
    THEN [friends |-> friends,
          resp |-> Fail(500, "Internal server error while creating friend")]
    ELSE IF ~Includes(body.email, "@") \/ ~Includes(body.email, ".")
    THEN [friends |-> friends,
          resp |-> Fail(400, "Please provide a valid email address")]
    ELSE IF HasFriend(KeyOf(body.email))
    THEN [friends |-> friends,
          resp |-> Fail(400, "Friend with email '${email}' already exists")]
    ELSE LET record == [firstName |-> Read(body, "firstName"),
                        lastName |-> Read(body, "lastName"), DOB |-> Read(body, "DOB")]
             after == (KeyOf(body.email) :> record) @@ friends
         IN  [friends |-> after,
              resp |-> [status |-> 201, success |-> TRUE,
                        message |-> "Friend created successfully",
                        data |-> after[KeyOf(body.email)]]]

FieldNames == <<"firstName", "lastName", "DOB">>

\* the test of the first router definition: `if (updates.f !== undefined)`
ChangesProvided(updates, record, f) ==
    updates[f] # Undefined

\* the `if (updates.f !== undefined && updates.f !== friends[email].f)` test
Changes(updates, record, f) ==
    updates[f] # Undefined /\ updates[f] # record[f]

\* the fields pushed to updatedFields, in the order of the three ifs
UpdatedFields(updates, record) ==
    SelectSeq(FieldNames, LAMBDA f : Changes(updates, record, f))

UpdateMessage(updatedFields) ==
    IF Len(updatedFields) = 0 THEN "No fields were updated (values unchanged)"
    ELSE IF Len(updatedFields) = 1 THEN "Updated ${updatedFields[0]} for friend '${email}'"
    ELSE "Friend updated. Fields modified: ${updatedFields.join(', ')}"

\* req.body.firstName, .lastName and .DOB as the update handler reads them
Given(updates) == [f \in Fields |-> Read(updates, f)]

\* the store and the prototype members after the assignments to
\* friends[email] have left its own three properties as `record`; an
\* assignment to a property of a primitive value has no effect
StoreWith(email, record) ==
    IF Kind(email) = "record"
    THEN [friends EXCEPT ![email] = record]
    ELSE friends

InheritedWith(email, record) ==
    IF Kind(email) \in {"function", "prototype"}
    THEN [inherited EXCEPT ![email] = record]
    ELSE inherited

\* the body of the 200 response of an update, without updatedFields; data is
\* friends[email], which JSON.stringify leaves out when it is a function
UpdateResponse(email, record, updatedFields) ==
    CASE Kind(email) = "function"
            -> [status |-> 200, success |-> TRUE,
                message |-> UpdateMessage(updatedFields)]
      [] Kind(email) = "primitive"
            -> [status |-> 200, success |-> TRUE,
                message |-> UpdateMessage(updatedFields),
                data |-> Primitive(email)]
      [] OTHER
            -> [status |-> 200, success |-> TRUE,
                message |-> UpdateMessage(updatedFields), data |-> record]

\* PUT /friends/:email that sends updatedFields also when it is empty
routerPutAlwaysList(email, updates) ==
    IF ~HasFriend(email)
    THEN [friends |-> friends,
          resp |-> Fail(404, "Friend with email '${email}' not found")]
    ELSE LET old == Value(email)
             own == Own(email)
             given == Given(updates)
             updatedFields == UpdatedFields(given, old)
             record == [f \in DOMAIN old |->
                          IF Changes(given, old, f) THEN given[f] ELSE own[f]]
         IN  [friends |-> StoreWith(email, record),
              inherited |-> InheritedWith(email, record),
              resp |-> UpdateResponse(email, record, updatedFields)
                       @@ [updatedFields |-> updatedFields]]

\* PUT /friends/:email that replaces the record by the three fields of the body
routerPutReplace(email, updates) ==
    IF ~HasFriend(email)
    THEN [friends |-> friends,
          resp |-> Fail(404, "Friend with email '${email}' not found")]
    ELSE LET old == Value(email)
             own == Own(email)
             given == Given(updates)
             updatedFields == UpdatedFields(given, old)
             record == [f \in DOMAIN old |-> given[f]]
             base == UpdateResponse(email, record, updatedFields)
         IN  [friends |-> StoreWith(email, record),
              inherited |-> InheritedWith(email, record),
              resp |-> IF Len(updatedFields) > 0
                       THEN base @@ [updatedFields |-> updatedFields]
                       ELSE base]

\* PUT /friends/:email that pushes 'DOB' without assigning the value
routerPutDOBNotAssigned(email, updates) ==
    IF ~HasFriend(email)
    THEN [friends |-> friends,
          resp |-> Fail(404, "Friend with email '${email}' not found")]
    ELSE LET old == Value(email)
             own == Own(email)
             given == Given(updates)
             updatedFields == UpdatedFields(given, old)
             record == [f \in DOMAIN old |->
                          IF Changes(given, old, f) /\ f # "DOB"
                          THEN given[f] ELSE own[f]]
             base == UpdateResponse(email, record, updatedFields)
         IN  [friends |-> StoreWith(email, record),
              inherited |-> InheritedWith(email, record),
              resp |-> IF Len(updatedFields) > 0
                       THEN base @@ [updatedFields |-> updatedFields]
                       ELSE base]

\* PUT /friends/:email
routerPut(email, updates) ==
    IF ~HasFriend(email)
    THEN [friends |-> friends,
          resp |-> Fail(404, "Friend with email '${email}' not found")]
    ELSE LET old == Value(email)
             own == Own(email)
             given == Given(updates)
             updatedFields == UpdatedFields(given, old)
             record == [f \in DOMAIN old |->
                          IF Changes(given, old, f) THEN given[f] ELSE own[f]]
             base == UpdateResponse(email, record, updatedFields)
         IN  [friends |-> StoreWith(email, record),
              inherited |-> InheritedWith(email, record),
              \* updatedFields: undefined is left out of the JSON body
              resp |-> IF Len(updatedFields) > 0
                       THEN base @@ [updatedFields |-> updatedFields]
                       ELSE base]

\* DELETE /friends/:email with `delete friends.email`: no key is removed
routerDeleteWrongKey(email) ==
    IF ~HasFriend(email)
    THEN [friends |-> friends,
          resp |-> Fail(404, "Friend with email '${email}' not found")]
    ELSE [friends |-> friends,
          resp |-> [status |-> 200, success |-> TRUE,
                    message |-> "Friend with email '${email}' deleted successfully",
                    data |-> Spread(email),
                    remainingCount |-> KeyCount(friends)]]

\* DELETE /friends/:email that counts the keys before it removes the key
routerDeleteCountBefore(email) ==
    IF ~HasFriend(email)
    THEN [friends |-> friends,
          resp |-> Fail(404, "Friend with email '${email}' not found")]
    ELSE LET deletedFriend == Spread(email)
             remainingCount == KeyCount(friends)
             after == Without(friends, email)
         IN  [friends |-> after,
              resp |-> [status |-> 200, success |-> TRUE,
                        message |-> "Friend with email '${email}' deleted successfully",
                        data |-> deletedFriend,
                        remainingCount |-> remainingCount]]

\* DELETE /friends/:email
routerDelete(email) ==
    IF ~HasFriend(email)
    THEN [friends |-> friends,
          resp |-> Fail(404, "Friend with email '${email}' not found")]
    ELSE LET deletedFriend == Spread(email)
             after == Without(friends, email)
         IN  [friends |-> after,
              resp |-> [status |-> 200, success |-> TRUE,
                        message |-> "Friend with email '${email}' deleted successfully",
                        data |-> deletedFriend,
                        remainingCount |-> KeyCount(after)]]

(***************************************************************************)
(* What a client that reads the requests and the responses can replay: the *)
(* record of each create, with the fields each later update reported as    *)
(* changed set to the values of that update's body.                        *)
(***************************************************************************)
RecordOf(body) ==
    [firstName |-> body.firstName, lastName |-> body.lastName,
     DOB |-> body.DOB]

\* the names in the changed-fields list of a response (none when the body
\* carries no such list)
Reported(resp) ==
    IF "updatedFields" \in DOMAIN resp
    THEN {resp.updatedFields[i] : i \in DOMAIN resp.updatedFields}
    ELSE {}

Replayed(req, resp) ==
    CASE req.op = "create" /\ resp.status = 201
            -> (KeyOf(req.body.email) :> RecordOf(req.body)) @@ replay
      [] req.op = "update" /\ resp.status = 200 /\ req.email \in DOMAIN replay
            -> [replay EXCEPT ![req.email] =
                  [f \in Fields |->
                     IF f \in Reported(resp) THEN req.body[f] ELSE @[f]]]
      [] req.op = "delete" /\ resp.status = 200 /\ req.email \in DOMAIN replay
            -> Without(replay, req.email)
      [] OTHER -> replay

(***************************************************************************)
(* A request to /friends: session middleware, authMiddleware, then the     *)
(* router's handler, whose outcome is `handled`.  `last` also records the  *)
(* number of keys of the store when the request arrived and whether the    *)
(* expiry of the session the request presented lay in the past.            *)
(***************************************************************************)
\* a gate that answers 401 or 403 and falls through to the handler all the
\* same
FriendsRequestFallsThrough(sid, req, handled) ==
    LET sess == LoadSession(sid)
        gate == authMiddleware(sess)
    IN  /\ sessions' = EndRequest(sid, gate.session)
        /\ UNCHANGED <<users, now>>
        /\ friends' = handled.friends
        /\ inherited' = IF "inherited" \in DOMAIN handled
                        THEN handled.inherited
                        ELSE inherited
        /\ IF gate.outcome = "next"
           THEN /\ replay' = Replayed(req, handled.resp)
                /\ last' = [req |-> req @@ [session |-> sess,
                                            lapsed |-> Lapsed(sid)],
                            keysBefore |-> KeyCount(friends),
                            gate |-> "next", user |-> gate.user,
                            resp |-> handled.resp]
           ELSE /\ replay' = replay
                /\ last' = [req |-> req @@ [session |-> sess,
                                            lapsed |-> Lapsed(sid)],
                            keysBefore |-> KeyCount(friends),
                            gate |-> gate.outcome, resp |-> gate.resp]

\* a router that lets only the first registered user change the store: to
\* every other user a create, update or delete is answered 403
FriendsRequestFirstUserOnly(sid, req, handled) ==
    LET sess == LoadSession(sid)
        gate == authMiddleware(sess)
        denied == /\ gate.outcome = "next"
                  /\ req.op \in {"create", "update", "delete"}
                  /\ gate.user.username # users[1].username
        done == IF denied
                THEN [friends |-> friends,
                      resp |-> Fail(403, "Not the owner of the store")]
                ELSE handled
    IN  /\ sessions' = EndRequest(sid, gate.session)
        /\ UNCHANGED <<users, now>>
        /\ IF gate.outcome = "next"
           THEN /\ friends' = done.friends
                /\ inherited' = IF "inherited" \in DOMAIN done
                                THEN done.inherited
                                ELSE inherited
                /\ replay' = Replayed(req, done.resp)
                /\ last' = [req |-> req @@ [session |-> sess,
                                            lapsed |-> Lapsed(sid)],
                            keysBefore |-> KeyCount(friends),
                            gate |-> "next", user |-> gate.user,
                            resp |-> done.resp]
           ELSE /\ UNCHANGED <<friends, inherited, replay>>
                /\ last' = [req |-> req @@ [session |-> sess,
                                            lapsed |-> Lapsed(sid)],
                            keysBefore |-> KeyCount(friends),
                            gate |-> gate.outcome, resp |-> gate.resp]

FriendsRequest(sid, req, handled) ==
    LET sess == LoadSession(sid)
        gate == authMiddleware(sess)
    IN  /\ sessions' = EndRequest(sid, gate.session)
        /\ UNCHANGED <<users, now>>
        /\ IF gate.outcome = "next"
           THEN /\ friends' = handled.friends
                /\ inherited' = IF "inherited" \in DOMAIN handled
                                THEN handled.inherited
                                ELSE inherited
                /\ replay' = Replayed(req, handled.resp)
                /\ last' = [req |-> req @@ [session |-> sess,
                                            lapsed |-> Lapsed(sid)],
                            keysBefore |-> KeyCount(friends),
                            gate |-> "next", user |-> gate.user,
                            resp |-> handled.resp]
           ELSE /\ UNCHANGED <<friends, inherited, replay>>
                /\ last' = [req |-> req @@ [session |-> sess,
                                            lapsed |-> Lapsed(sid)],
                            keysBefore |-> KeyCount(friends),
                            gate |-> gate.outcome, resp |-> gate.resp]

GetAll(sid) ==
    FriendsRequest(sid, [op |-> "getAll", sid |-> sid], routerGetAll)

GetEmail(sid, email) ==
    FriendsRequest(sid, [op |-> "get", sid |-> sid, email |-> email],
                   routerGetEmail(email))

Post(sid, body) ==
    FriendsRequest(sid, [op |-> "create", sid |-> sid, body |-> body],
                   routerPost(body))

Put(sid, email, updates) ==
    FriendsRequest(sid, [op |-> "update", sid |-> sid, email |-> email,
                         body |-> updates],
                   routerPut(email, updates))

Delete(sid, email) ==
    FriendsRequest(sid, [op |-> "delete", sid |-> sid, email |-> email],
                   routerDelete(email))

(***************************************************************************)
(* The clock                                                               *)
(***************************************************************************)
Tick ==
    /\ now + Step <= MaxTicks * Step
    /\ now' = now + Step
    /\ UNCHANGED <<users, sessions, friends, inherited, replay, last>>

(***************************************************************************)
(* Inputs                                                                  *)
(***************************************************************************)
New == <<"a", "@", "b", ".", "com">>
Emails == {John, New, <<"nobody">>}

Bob == Str(<<"bob">>)
Pw == Str(<<"pw">>)

\* {username, password} bodies: usernames and passwords that differ in
\* case only, an empty string and a missing field
Credentials ==
    {<<Bob, Pw>>, <<Bob, Str(<<"PW">>)>>, <<Str(<<"Bob">>), Pw>>,
     <<Str(<<>>), Pw>>, <<Bob, Undefined>>}


NewFriend ==
    [email |-> Str(New), firstName |-> Str(<<"A">>),
     lastName |-> Str(<<"B">>), DOB |-> Str(<<"01-01-2000">>)]

\* POST /friends bodies: two complete ones (a new email, an email of the
\* initial store) and ones with a missing, empty or null field, an email
\* without '.', and emails that are not strings: a number and an array
CreateBodies ==
    {NewFriend,
     [NewFriend EXCEPT !.email = Str(John)],
     [NewFriend EXCEPT !.firstName = Undefined],
     [NewFriend EXCEPT !.DOB = Str(<<>>)],
     [NewFriend EXCEPT !.email = Str(<<>>)],
     [NewFriend EXCEPT !.email = Str(<<"a", "@", "b">>)],
     [NewFriend EXCEPT !.lastName = Null],
     [NewFriend EXCEPT !.email = Num("42")],
     [NewFriend EXCEPT !.email = Arr(<<"@", ".">>)]}

\* PUT /friends/:email bodies: every subset of the three fields, with values
\* equal to and different from the stored ones, null and the empty string
UpdateBodies ==
    [firstName : {Undefined, Str(<<"A">>), Str(<<"Z">>)},
     lastName : {Undefined, Null},
     DOB : {Undefined, Str(<<>>)}]

Init ==
    /\ users = <<>>
    /\ sessions = [sid \in Clients |-> NoSession]
    /\ friends = InitialFriends
    /\ inherited = [k \in PrototypeKeys \cup {ProtoKey} |-> NoProps]
    /\ replay = <<>>
    /\ now = 0
    /\ last = [req |-> [op |-> "none"]]

(***************************************************************************)
(* Spec: the whole service for two clients, with the {username, password}  *)
(* bodies enumerated and one request of each kind to the Friend Store, all *)
(* within the same second.                                                 *)
(***************************************************************************)
UpdateZ ==
    [firstName |-> Str(<<"Z">>), lastName |-> Undefined, DOB |-> Undefined]

Next ==
    \/ \E sid \in Clients, c \in Credentials : Register(sid, c[1], c[2])
    \/ \E sid \in Clients, c \in Credentials : Login(sid, c[1], c[2])
    \/ \E sid \in Clients : Logout(sid)
    \/ \E sid \in Clients : Health(sid)
    \/ \E sid \in Clients : GetAll(sid)
    \/ \E sid \in Clients : GetEmail(sid, New)
    \/ \E sid \in Clients : Post(sid, NewFriend)
    \/ \E sid \in Clients : Put(sid, New, UpdateZ)
    \/ \E sid \in Clients : Delete(sid, New)

Spec == Init /\ [][Next]_vars

(***************************************************************************)
(* ClockSpec: the whole service for one client, with the clock running     *)
(* past the expiry of tokens and of sessions.                              *)
(***************************************************************************)
ClockNext ==
    \/ \E c \in Credentials : Register("c1", c[1], c[2])
    \/ \E c \in Credentials : Login("c1", c[1], c[2])
    \/ Logout("c1")
    \/ Health("c1")
    \/ GetAll("c1")
    \/ GetEmail("c1", New)
    \/ Post("c1", NewFriend)
    \/ Put("c1", New, UpdateZ)
    \/ Delete("c1", New)
    \/ Tick

ClockSpec == Init /\ [][ClockNext]_vars

(***************************************************************************)
(* StoreSpec: the whole service, with the inputs of the Friend Store       *)
(* handlers enumerated and one client, one user and a clock that stands.   *)
(***************************************************************************)
StoreNext ==
    \/ Register("c1", Bob, Pw)
    \/ Login("c1", Bob, Pw)
    \/ Logout("c1")
    \/ GetAll("c1")
    \/ \E email \in Emails : GetEmail("c1", email)
    \/ \E body \in CreateBodies : Post("c1", body)
    \/ \E email \in Emails, updates \in UpdateBodies : Put("c1", email, updates)
    \/ \E email \in Emails : Delete("c1", email)

StoreSpec == Init /\ [][StoreNext]_vars

(***************************************************************************)
(* KeySpec: the whole service for one client and one user, with request    *)
(* emails that are a key of the store, a name that is no property of it,   *)
(* the name of a function member of Object.prototype, "__proto__", and a   *)
(* name that an update of "__proto__" sets on Object.prototype; and with   *)
(* bodies that leave a field out.                                          *)
(***************************************************************************)
KeyEmails ==
    {John, New, <<"nobody">>, <<"constructor">>, ProtoKey, <<"firstName">>}

KeyUpdates == {UpdateZ, NoProps}

KeyBodies == {NewFriend, [NewFriend EXCEPT !.firstName = Undefined]}

KeyNext ==
    \/ Register("c1", Bob, Pw)
    \/ Login("c1", Bob, Pw)
    \/ Logout("c1")
    \/ Health("c1")
    \/ GetAll("c1")
    \/ \E email \in KeyEmails : GetEmail("c1", email)
    \/ \E body \in KeyBodies : Post("c1", body)
    \/ \E email \in KeyEmails, updates \in KeyUpdates : Put("c1", email, updates)
    \/ \E email \in KeyEmails : Delete("c1", email)

KeySpec == Init /\ [][KeyNext]_vars

(***************************************************************************)
(* FaultSpec: the whole service for one client with the clock running,     *)
(* with the requests that each handler and the gate answer with a failure: *)
(* missing and wrong credentials, a taken username, no session, an expired *)
(* token, an unknown email, a taken email, a missing field, and an email   *)
(* that is a number.  The emails include the name of a function member of  *)
(* Object.prototype.                                                       *)
(***************************************************************************)
FaultEmails == {New, <<"nobody">>, <<"constructor">>}

FaultBodies ==
    {NewFriend,
     [NewFriend EXCEPT !.firstName = Undefined],
     [NewFriend EXCEPT !.email = Num("42")]}

FaultCredentials == {<<Bob, Pw>>, <<Bob, Str(<<"PW">>)>>, <<Bob, Undefined>>}

FaultNext ==
    \/ \E c \in FaultCredentials : Register("c1", c[1], c[2])
    \/ \E c \in FaultCredentials : Login("c1", c[1], c[2])
    \/ Logout("c1")
    \/ Health("c1")
    \/ GetAll("c1")
    \/ \E email \in FaultEmails : GetEmail("c1", email)
    \/ \E body \in FaultBodies : Post("c1", body)
    \/ \E email \in FaultEmails : Put("c1", email, UpdateZ)
    \/ \E email \in FaultEmails : Delete("c1", email)
    \/ Tick

FaultSpec == Init /\ [][FaultNext]_vars

(***************************************************************************)
(* RaceSpec: two clients of one user whose requests interleave in every    *)
(* order, each creating the same new email with a record of its own.  A    *)
(* handler runs to completion before the next one starts, so the           *)
(* interleavings are the orders of whole handlers.                         *)
(***************************************************************************)
RaceBody(sid) ==
    [NewFriend EXCEPT !.firstName = Str(<<sid>>)]

RaceNext ==
    \/ \E sid \in Clients : Register(sid, Bob, Pw)
    \/ \E sid \in Clients : Login(sid, Bob, Pw)
    \/ \E sid \in Clients : Logout(sid)
    \/ \E sid \in Clients : GetEmail(sid, New)
    \/ \E sid \in Clients : Post(sid, RaceBody(sid))
    \/ \E sid \in Clients : Put(sid, New, UpdateZ)
    \/ \E sid \in Clients : Delete(sid, New)

RaceSpec == Init /\ [][RaceNext]_vars

(***************************************************************************)
(* SharedSpec: two users, each with a client of its own: client c1 logs in *)
(* as "bob" and client c2 as "Bob".  Both send every request to the Friend *)
(* Store for the same email; the record a client creates carries the name  *)
(* of the client as firstName.                                             *)
(***************************************************************************)
UserOf(sid) == IF sid = "c1" THEN Bob ELSE Str(<<"Bob">>)

SharedNext ==
    \/ \E sid \in Clients : Register(sid, UserOf(sid), Pw)
    \/ \E sid \in Clients : Login(sid, UserOf(sid), Pw)
    \/ \E sid \in Clients : Logout(sid)
    \/ \E sid \in Clients : GetAll(sid)
    \/ \E sid \in Clients : GetEmail(sid, New)
    \/ \E sid \in Clients : Post(sid, RaceBody(sid))
    \/ \E sid \in Clients : Put(sid, New, UpdateZ)
    \/ \E sid \in Clients : Delete(sid, New)

SharedSpec == Init /\ [][SharedNext]_vars

(***************************************************************************)
(* Steps and vocabulary of the properties.  Every step that is not a tick  *)
(* of the clock handles one request, which `last` records.                 *)
(***************************************************************************)
FriendOps == {"getAll", "get", "create", "update", "delete"}

\* the step handles a request of kind op
Handles(op) == now' = now /\ last'.req.op = op

\* the step handles a request of client sid to a /friends path
FriendsStep(sid) ==
    now' = now /\ last'.req.op \in FriendOps /\ last'.req.sid = sid

\* the step handles a /friends request of kind op that passed the gate
Authorized(op) == Handles(op) /\ last'.gate = "next"

\* the step handles a login of client sid that is answered 200
LoginOkStep(sid) ==
    Handles("login") /\ last'.req.sid = sid /\ last'.resp.status = 200

\* what the router's handler makes of a request to /friends; the handlers
\* do not read req.user
Handled(req) ==
    CASE req.op = "getAll" -> routerGetAll
      [] req.op = "get" -> routerGetEmail(req.email)
      [] req.op = "create" -> routerPost(req.body)
      [] req.op = "update" -> routerPut(req.email, req.body)
      [] req.op = "delete" -> routerDelete(req.email)

\* a /friends request of client sid would pass the gate now
PassesGate(sid) == authMiddleware(LoadSession(sid)).outcome = "next"

NonEmpty(v) == v \notin {Undefined, Null, Str(<<>>)}

Registered(username) ==
    \E i \in 1..Len(users) : users[i].username = username

Matches(username, password) ==
    \E i \in 1..Len(users) :
        users[i].username = username /\ users[i].password = password

(***************************************************************************)
(* C1.  A request to any /friends path on a session that holds no          *)
(* authorization value (never logged in, or logged out) is answered 401,   *)
(* does not reach a Friend Store handler and leaves the store as it is.    *)
(***************************************************************************)
C1_NoSessionUnauthorized ==
    [][\A sid \in Clients :
        (FriendsStep(sid) /\ ~sessions[sid].stored)
        => /\ last'.resp.status = 401
           /\ last'.gate = "401"
           /\ friends' = friends]_vars

\* a /friends request rejected 401 while a user is registered and another
\* client is logged in
C1_Witness ==
    /\ last.req.op \in FriendOps
    /\ last.gate = "401"
    /\ last.req.session.authorization = Undefined
    /\ users # <<>>
    /\ \E s \in Clients : sessions[s].stored

(***************************************************************************)
(* C2.  A login with the credentials of a registered user stores a token   *)
(* issued at that moment; a /friends request on that session before the    *)
(* token's expiry (issue time + 3600 s) passes the gate, and one made once *)
(* the token has expired, on the still-present session, is answered 403.   *)
(***************************************************************************)
C2_LoginThenExpiry ==
    [][\A sid \in Clients :
        /\ (/\ Handles("login") /\ last'.req.sid = sid
            /\ NonEmpty(last'.req.body.username)
            /\ NonEmpty(last'.req.body.password)
            /\ Matches(last'.req.body.username, last'.req.body.password))
           => /\ sessions'[sid].stored
              /\ sessions'[sid].authorization.accessToken.iat = now
              /\ sessions'[sid].authorization.username = last'.req.body.username
        /\ (FriendsStep(sid) /\ sessions[sid].stored
            /\ now < sessions[sid].authorization.accessToken.iat + 3600)
           => last'.gate = "next"
        /\ (FriendsStep(sid) /\ sessions[sid].stored
            /\ sessions[sid].expires > NowMs
            /\ now >= sessions[sid].authorization.accessToken.iat + 3600)
           => (last'.gate = "403" /\ last'.resp.status = 403)]_vars

\* a /friends request answered 403 on a session that is still stored
C2_Witness ==
    /\ last.req.op \in FriendOps
    /\ last.gate = "403"
    /\ sessions[last.req.sid].stored
    /\ now >= sessions[last.req.sid].authorization.accessToken.iat + 3600

(***************************************************************************)
(* C3.  A logout leaves the session without authorization value; a session *)
(* without one stays without one until a login on that same session is     *)
(* answered 200; and every /friends request on it is answered 401.         *)
(***************************************************************************)
C3_LogoutUntilLogin ==
    [][\A sid \in Clients :
        /\ (Handles("logout") /\ last'.req.sid = sid) => ~sessions'[sid].stored
        /\ (~sessions[sid].stored /\ ~LoginOkStep(sid)) => ~sessions'[sid].stored
        /\ (FriendsStep(sid) /\ ~sessions[sid].stored)
           => (last'.resp.status = 401 /\ ~sessions'[sid].stored)]_vars

\* a logout of a session that held a token, while the other client's
\* session is still stored
C3_Witness ==
    /\ last.req.op = "logout"
    /\ last.resp.status = 200
    /\ last.req.session.authorization # Undefined
    /\ ~sessions[last.req.sid].stored
    /\ \E s \in Clients : sessions[s].stored

(***************************************************************************)
(* C4.  As stated: registering a username that is already registered is    *)
(* answered 409 and leaves the credential store unchanged.                 *)
(***************************************************************************)
C4_Original ==
    [][(Handles("register") /\ Registered(last'.req.body.username))
       => (last'.resp.status = 409 /\ users' = users)]_vars

(***************************************************************************)
(* C4, amended.  Registering a username that is already registered leaves  *)
(* the credential store unchanged, and is answered 409 when the password   *)
(* is non-empty and 400 when it is empty or absent.                        *)
(***************************************************************************)
C4_DuplicateRegister ==
    [][(Handles("register") /\ Registered(last'.req.body.username))
       => /\ users' = users
          /\ last'.resp.status =
                IF NonEmpty(last'.req.body.password) THEN 409 ELSE 400]_vars

\* a 409 for a registered username whose stored password differs from the
\* one in the request
C4_Witness ==
    /\ last.req.op = "register"
    /\ last.resp.status = 409
    /\ \E i \in 1..Len(users) :
          /\ users[i].username = last.req.body.username
          /\ users[i].password # last.req.body.password

(***************************************************************************)
(* C5.  Login answers 200 and stores an authorization value (token,        *)
(* username) in the session if and only if username and password are both  *)
(* non-empty and some stored user matches both exactly; it answers 400     *)
(* when a field is empty or absent and 401 when no stored user matches,    *)
(* and then stores nothing.                                                *)
(***************************************************************************)
C5_LoginIff ==
    [][Handles("login")
       => LET sid == last'.req.sid
              username == last'.req.body.username
              password == last'.req.body.password
              ok == /\ NonEmpty(username) /\ NonEmpty(password)
                    /\ Matches(username, password)
              stores ==
                  /\ sessions'[sid].stored
                  /\ sessions'[sid].authorization.username = username
                  /\ sessions'[sid].authorization.accessToken.username = username
                  /\ sessions'[sid].authorization.accessToken.iat = now
              keeps ==
                  IF sessions[sid].stored
                  THEN /\ sessions'[sid].stored
                       /\ sessions'[sid].authorization = sessions[sid].authorization
                  ELSE ~sessions'[sid].stored
          IN  /\ (last'.resp.status = 200) <=> ok
              /\ ok => stores
              /\ ~ok => keeps
              /\ (~NonEmpty(username) \/ ~NonEmpty(password))
                 => last'.resp.status = 400
              /\ (NonEmpty(username) /\ NonEmpty(password)
                  /\ ~Matches(username, password))
                 => last'.resp.status = 401]_vars

\* a login answered 401 for a username that differs only in case from the
\* one registered user's, with that user's password
C5_Witness ==
    /\ last.req.op = "login"
    /\ last.resp.status = 401
    /\ last.req.body.username = Str(<<"Bob">>)
    /\ Len(users) = 1
    /\ users[1].username = Bob
    /\ users[1].password = last.req.body.password

(***************************************************************************)
(* Vocabulary of the Friend Store properties                               *)
(***************************************************************************)
HasToken(v, tok) == tok \in {v.s[i] : i \in DOMAIN v.s}

\* the fields of an update that are present and differ from the stored value
Differing(updates, record) ==
    {f \in Fields : updates[f] # Undefined /\ updates[f] # record[f]}

(***************************************************************************)
(* C6.  As stated: for an email not present in the store and four          *)
(* non-empty fields, create inserts the record.                            *)
(***************************************************************************)
C6_Original ==
    [][(/\ Authorized("create")
        /\ NonEmpty(last'.req.body.email)
        /\ NonEmpty(last'.req.body.firstName)
        /\ NonEmpty(last'.req.body.lastName)
        /\ NonEmpty(last'.req.body.DOB)
        /\ last'.req.body.email.s \notin DOMAIN friends)
       => /\ last'.resp.status = 201
          /\ last'.req.body.email.s \in DOMAIN friends']_vars

(***************************************************************************)
(* C6, amended.  For an email that is a string containing both '@' and     *)
(* '.' and three non-empty fields firstName, lastName, DOB: when the email *)
(* is not present in the store, create answers 201, inserts the record and *)
(* a get of that email right after returns exactly {firstName, lastName,   *)
(* DOB} as given; when the email is present, create answers 400 and        *)
(* leaves the store unchanged.                                             *)
(***************************************************************************)
C6_CreateThenGet ==
    [][(/\ Authorized("create")
        /\ last'.req.body.email.t = "string"
        /\ HasToken(last'.req.body.email, "@")
        /\ HasToken(last'.req.body.email, ".")
        /\ NonEmpty(last'.req.body.firstName)
        /\ NonEmpty(last'.req.body.lastName)
        /\ NonEmpty(last'.req.body.DOB))
       => LET body == last'.req.body
              email == body.email.s
          IN  IF email \notin DOMAIN friends
              THEN /\ last'.resp.status = 201
                   /\ last'.resp.data = RecordOf(body)
                   /\ DOMAIN friends' = DOMAIN friends \cup {email}
                   /\ \A k \in DOMAIN friends : friends'[k] = friends[k]
                   /\ getEmailResponse(friends', email).status = 200
                   /\ getEmailResponse(friends', email).data = RecordOf(body)
              ELSE /\ last'.resp.status = 400
                   /\ friends' = friends]_vars

\* a create answered 400 for an email whose stored record differs from the
\* record of the request
C6_Witness ==
    /\ last.req.op = "create"
    /\ last.gate = "next"
    /\ last.resp.status = 400
    /\ last.req.body.email.t = "string"
    /\ last.req.body.email.s \in DOMAIN friends
    /\ friends[last.req.body.email.s] # RecordOf(last.req.body)

(***************************************************************************)
(* C7.  As stated: for an update of an existing email, the changed-fields  *)
(* list of the response names, once each, exactly the fields among         *)
(* firstName, lastName, DOB that are present in the request and whose      *)
(* value differs from the stored one, and exactly those fields take the    *)
(* incoming value.  (A response without the list names no field: see C8.)  *)
(* It holds in every run without a request to the email "__proto__"; an    *)
(* update of "__proto__" writes the field to Object.prototype, from where  *)
(* a later update reads it although its body lacks the field.              *)
(***************************************************************************)
C7_ChangedFields ==
    [][(Authorized("update") /\ last'.req.email \in DOMAIN friends)
       => LET email == last'.req.email
              updates == last'.req.body
              changed == Differing(updates, friends[email])
          IN  /\ Reported(last'.resp) = changed
              /\ "updatedFields" \in DOMAIN last'.resp
                 => Len(last'.resp.updatedFields) = Cardinality(changed)
              /\ \A f \in Fields :
                   friends'[email][f] =
                      IF f \in changed THEN updates[f] ELSE friends[email][f]]_vars

\* an update that carries a value equal to the stored one and a value that
\* differs: only the second is listed
C7_Witness ==
    /\ last.req.op = "update"
    /\ last.gate = "next"
    /\ last.resp.status = 200
    /\ \E f, g \in Fields :
          /\ last.req.body[f] # Undefined
          /\ f \notin Reported(last.resp)
          /\ g \in Reported(last.resp)

C9_UpdateFrame ==
    [][Handles("update")
       => LET email == last'.req.email
              updates == last'.req.body
          IN  /\ DOMAIN friends' = DOMAIN friends
              /\ \A k \in DOMAIN friends \ {email} : friends'[k] = friends[k]
              /\ email \in DOMAIN friends
                 => /\ DOMAIN friends'[email] = Fields
                    /\ \A f \in Fields :
                         updates[f] = Undefined
                         => friends'[email][f] = friends[email][f]]_vars

\* an update that changed a field and whose body leaves another field out
C9_Witness ==
    /\ last.req.op = "update"
    /\ last.gate = "next"
    /\ last.resp.status = 200
    /\ Reported(last.resp) # {}
    /\ \E f \in Fields : last.req.body[f] = Undefined
    /\ Cardinality(DOMAIN friends) >= 3

(***************************************************************************)
(* C10.  A delete of an existing email answers 200, removes the key, so    *)
(* that a get of that email right after answers 404, and returns a record  *)
(* whose three fields equal the record's state right before the removal;   *)
(* all other records are unchanged.                                        *)
(***************************************************************************)
C10_Delete ==
    [][(Authorized("delete") /\ last'.req.email \in DOMAIN friends)
       => LET email == last'.req.email
          IN  /\ last'.resp.status = 200
              /\ last'.resp.data = friends[email]
              /\ DOMAIN friends' = DOMAIN friends \ {email}
              /\ \A k \in DOMAIN friends' : friends'[k] = friends[k]
              /\ getEmailResponse(friends', email).status = 404]_vars

\* a delete of a record of the initial store that had been updated: the
\* record returned is the updated one
C10_Witness ==
    /\ last.req.op = "delete"
    /\ last.gate = "next"
    /\ last.resp.status = 200
    /\ last.req.email = John
    /\ John \notin DOMAIN friends
    /\ last.resp.data # InitialFriends[John]

(***************************************************************************)
(* C11.  The count of a listAll response and the remainingCount of the     *)
(* response of a successful delete each equal the number of keys the       *)
(* Friend Store holds when the response is sent; and a successful delete   *)
(* that directly follows a successful create of the same email returns the *)
(* count to its value before the create.                                   *)
(***************************************************************************)
C11_Counts ==
    [][/\ Authorized("getAll") => last'.resp.count = KeyCount(friends')
       /\ (Authorized("delete") /\ last'.resp.status = 200)
          => last'.resp.remainingCount = KeyCount(friends')
       /\ (/\ last.req.op = "create"
           /\ last.gate = "next"
           /\ last.resp.status = 201
           /\ Authorized("delete")
           /\ last'.resp.status = 200
           /\ last'.req.email = KeyOf(last.req.body.email))
          => /\ last'.resp.remainingCount = last.keysBefore
             /\ KeyCount(friends') = last.keysBefore]_vars

\* a successful delete of an email that only a create can have added, after
\* which the store holds one key less than the initial store
C11_Witness ==
    /\ last.req.op = "delete"
    /\ last.gate = "next"
    /\ last.resp.status = 200
    /\ last.req.email = New
    /\ last.resp.remainingCount = last.keysBefore - 1
    /\ last.resp.remainingCount = KeyCount(InitialFriends) - 1

(***************************************************************************)
(* C12.  As stated: for a create of email e with record r followed by any  *)
(* number of updates of e and no delete of e, with requests to other       *)
(* emails and by other routes in between, a get of e returns the record    *)
(* obtained from r by applying, in order, to the fields each update        *)
(* reported as changed the values of that update's body. It holds in every *)
(* run without a request to the email "__proto__"; an update of            *)
(* "__proto__" writes the field to Object.prototype, from where a later    *)
(* create or update stores a value that its body does not carry.           *)
(***************************************************************************)
C12_RoundTrip ==
    [][/\ \A e \in DOMAIN replay' :
            /\ getEmailResponse(friends', e).status = 200
            /\ getEmailResponse(friends', e).data = replay'[e]
       /\ (Authorized("get") /\ last'.req.email \in DOMAIN replay)
          => /\ last'.resp.status = 200
             /\ last'.resp.data = replay[last'.req.email]]_vars

\* a get of a created email after updates that changed two of its fields
C12_Witness ==
    /\ last.req.op = "get"
    /\ last.gate = "next"
    /\ last.resp.status = 200
    /\ last.req.email = New
    /\ New \in DOMAIN replay
    /\ last.resp.data = replay[New]
    /\ Cardinality({f \in Fields : replay[New][f] # RecordOf(NewFriend)[f]}) >= 2

(***************************************************************************)
(* C13.  As stated: in every reachable state every key of the Friend Store *)
(* maps to a record with exactly the three fields firstName, lastName and  *)
(* DOB, each present and not null.  An update whose body carries           *)
(* `"lastName": null` passes both tests of the handler (null !== undefined *)
(* and null !== the stored value) and is assigned, so the invariant does   *)
(* not hold.                                                               *)
(***************************************************************************)
C13_Original ==
    \A e \in DOMAIN friends :
        /\ DOMAIN friends[e] = Fields
        /\ \A f \in Fields : friends[e][f] \notin {Undefined, Null}

(***************************************************************************)
(* C14.  As stated: for a key that is not present in the Friend Store,     *)
(* get, update and delete each answer 404 and leave the store unchanged.   *)
(* The handlers test `friends[email]`, which is truthy also for the names  *)
(* of the members of Object.prototype and for "__proto__", so a request    *)
(* for the email "constructor" is answered 200.                            *)
(***************************************************************************)
C14_Original ==
    [][(/\ now' = now
        /\ last'.req.op \in {"get", "update", "delete"}
        /\ last'.gate = "next"
        /\ last'.req.email \notin DOMAIN friends)
       => /\ last'.resp.status = 404
          /\ friends' = friends]_vars

(***************************************************************************)
(* C15.  As stated: a create in whose body any of email, firstName,        *)
(* lastName, DOB is absent, null or the empty string is answered 400 and   *)
(* leaves the Friend Store unchanged. It holds in every run without a      *)
(* request to the email "__proto__"; an update of "__proto__" writes the   *)
(* field to Object.prototype, from where the body of a later create        *)
(* inherits it, so that the create is accepted although its body lacks the *)
(* field.                                                                  *)
(***************************************************************************)
C15_CreateMissingField ==
    [][(/\ Authorized("create")
        /\ \E f \in {"email", "firstName", "lastName", "DOB"} :
              ~NonEmpty(last'.req.body[f]))
       => /\ last'.resp.status = 400
          /\ last'.resp.success = FALSE
          /\ friends' = friends]_vars

\* a create answered 400 whose email is a new, well-formed address and
\* whose only defect is an empty or null field
C15_Witness ==
    /\ last.req.op = "create"
    /\ last.gate = "next"
    /\ last.resp.status = 400
    /\ last.req.body.email = Str(New)
    /\ New \notin DOMAIN friends
    /\ NonEmpty(last.req.body.firstName)
    /\ last.req.body.lastName = Null \/ last.req.body.DOB = Str(<<>>)

\* the tokens '@' and '.' both occur in the token sequence toks
ContainsBoth(toks) ==
    /\ \E i \in DOMAIN toks : toks[i] = "@"
    /\ \E i \in DOMAIN toks : toks[i] = "."

C17_RegisterMissingField ==
    [][/\ (/\ Handles("register")
           /\ \/ ~NonEmpty(last'.req.body.username)
              \/ ~NonEmpty(last'.req.body.password))
          => /\ last'.resp.status = 400
             /\ last'.resp.success = FALSE
             /\ users' = users
       /\ \A i \in 1..Len(users') :
             /\ NonEmpty(users'[i].username)
             /\ NonEmpty(users'[i].password)]_vars

\* a register without password answered 400 for a username that is not
\* registered, while another user is
C17_Witness ==
    /\ last.req.op = "register"
    /\ last.resp.status = 400
    /\ NonEmpty(last.req.body.username)
    /\ ~NonEmpty(last.req.body.password)
    /\ ~Registered(last.req.body.username)
    /\ users # <<>>

(***************************************************************************)
(* C18.  No two stored users have the same username, and the credential    *)
(* store only grows: no step removes a stored user or changes a stored     *)
(* user's username, password or createdAt.                                 *)
(***************************************************************************)
C18_UsersGrowOnly ==
    [][/\ Len(users') >= Len(users)
       /\ \A i \in 1..Len(users) : users'[i] = users[i]
       /\ \A i, j \in 1..Len(users') :
             users'[i].username = users'[j].username => i = j]_vars

\* two users registered at different times, right after a register of a
\* registered username with another password was answered 409
C18_Witness ==
    /\ Len(users) = 2
    /\ users[1].createdAt < users[2].createdAt
    /\ last.req.op = "register"
    /\ last.resp.status = 409
    /\ \E i \in 1..Len(users) :
          /\ users[i].username = last.req.body.username
          /\ users[i].password # last.req.body.password

(***************************************************************************)
(* C19.  The auth gate writes nothing to the session or the token:         *)
(* whichever way a /friends request ends (401, 403 or handled), the        *)
(* session holds after the request the username and the token, with its    *)
(* issue time and expiry, that the request found in it, and a request      *)
(* that found no authorization value leaves none.                          *)
(***************************************************************************)
C19_GateReadOnly ==
    [][\A sid \in Clients :
        FriendsStep(sid)
        => LET found == last'.req.session.authorization
           IN  /\ last'.gate \in {"401", "403", "next"}
               /\ IF found = Undefined
                  THEN ~sessions'[sid].stored
                  ELSE /\ sessions'[sid].stored
                       /\ sessions'[sid].authorization = found
               /\ (sessions[sid].stored /\ sessions[sid].expires > NowMs)
                  => /\ found = sessions[sid].authorization
                     /\ sessions'[sid].stored
                     /\ sessions'[sid].authorization = sessions[sid].authorization]_vars

\* a /friends request answered 403 after which the session still holds the
\* expired token
C19_Witness ==
    /\ last.req.op \in FriendOps
    /\ last.gate = "403"
    /\ last.req.session.authorization # Undefined
    /\ sessions[last.req.sid].stored
    /\ sessions[last.req.sid].authorization = last.req.session.authorization
    /\ sessions[last.req.sid].authorization.accessToken.exp <= now

\* the session of a request that presents token, signed with the key `key`
\* instead of its own
Forged(authorization, key) ==
    [authorization |->
        [authorization EXCEPT !.accessToken = [@ EXCEPT !.key = key]]]

(***************************************************************************)
(* C20.  A /friends request is never let through the gate when the token   *)
(* its session holds has expired (the clock is later than the token's      *)
(* issue time plus 3600 seconds): it is answered 403 and the store is      *)
(* unchanged.  And the gate lets no session through whose token is signed  *)
(* with a key other than the fixed secret "access", whatever the clock:    *)
(* this is checked on every stored token, re-signed with another key.      *)
(***************************************************************************)
C20_NeverAuthorized ==
    [][\A sid \in Clients :
        /\ (/\ FriendsStep(sid)
            /\ last'.req.session.authorization # Undefined
            /\ \/ now > last'.req.session.authorization.accessToken.iat + 3600
               \/ last'.req.session.authorization.accessToken.key # "access")
           => /\ last'.gate = "403"
              /\ last'.resp.status = 403
              /\ friends' = friends
        /\ sessions[sid].stored
           => authMiddleware(Forged(sessions[sid].authorization, "other")).outcome
                 = "403"]_vars

\* a /friends request answered 403 when the clock is later than the token's
\* issue time plus 3600 seconds, on a session that is still present
C20_Witness ==
    /\ last.req.op \in FriendOps
    /\ last.gate = "403"
    /\ last.req.session.authorization # Undefined
    /\ now > last.req.session.authorization.accessToken.iat + 3600
    /\ sessions[last.req.sid].stored

(***************************************************************************)
(* C21.  A request to a /friends path that presents a session whose expiry *)
(* lies in the past (now > expiry) is handled as one that presents no      *)
(* session: the gate answers the 401 it answers to a session that was      *)
(* never created, the Friend Store stays unchanged, and the expired        *)
(* session is gone from the session store.                                 *)
(***************************************************************************)
C21_ExpiredSessionAbsent ==
    [][\A sid \in Clients :
          (FriendsStep(sid) /\ Lapsed(sid))
          => /\ last'.req.session = FreshSession
             /\ last'.gate = "401"
             /\ last'.resp = authMiddleware(FreshSession).resp
             /\ last'.resp.status = 401
             /\ friends' = friends
             /\ sessions'[sid] = NoSession]_vars

\* a /friends request that presented an expired session was answered 401
C21_Witness ==
    /\ last.req.op \in FriendOps
    /\ last.req.lapsed
    /\ last.resp.status = 401
    /\ ~sessions[last.req.sid].stored

(***************************************************************************)
(* C22.  Logout is idempotent: every logout is answered 200 unless the     *)
(* destruction of the session reports an error, and only then 500; in      *)
(* particular a logout of a client for which no session is stored (it      *)
(* never logged in, or it logged out before) is answered 200 and leaves    *)
(* the session store as it was.  After a logout no session is stored for   *)
(* the client.                                                             *)
(***************************************************************************)
C22_LogoutIdempotent ==
    [][\A sid \in Clients :
          (Handles("logout") /\ last'.req.sid = sid)
          => /\ last'.resp.status \in {200, 500}
             /\ last'.resp.status = 500 <=> DestroyErr(sid)
             /\ last'.resp.status = 200
                => (last'.resp.success /\ ~sessions'[sid].stored)
             /\ ~sessions[sid].stored
                => (last'.resp.status = 200 /\ sessions' = sessions)]_vars

\* a logout of a client without a stored session, after one of a client
\* with one could have happened, was answered 200
C22_Witness ==
    /\ last.req.op = "logout"
    /\ ~last.req.stored
    /\ last.resp.status = 200
    /\ Len(users) > 0
    /\ \A sid \in Clients : ~sessions[sid].stored

(***************************************************************************)
(* C23.  A user may hold several sessions.  A login or a logout of one     *)
(* client leaves the session of every other client as it was, also when    *)
(* it belongs to the same user: a session that passed the gate before the  *)
(* step passes it after the step.                                          *)
(***************************************************************************)
C23_SessionsIndependent ==
    [][\A sid \in Clients :
          (/\ Handles("login") \/ Handles("logout")
           /\ last'.req.sid = sid)
          => \A other \in Clients \ {sid} :
                /\ sessions'[other] = sessions[other]
                /\ PassesGate(other) => PassesGate(other)']_vars

\* after a logout of one session of bob, another session of bob, created
\* by a login while the first one existed, still passes the gate
C23_Witness ==
    /\ last.req.op = "logout"
    /\ last.req.stored
    /\ last.req.session.authorization.username = Bob
    /\ ~sessions[last.req.sid].stored
    /\ \E other \in Clients \ {last.req.sid} :
          /\ sessions[other].stored
          /\ sessions[other].authorization.username = Bob
          /\ PassesGate(other)

(***************************************************************************)
(* C24.  A login answered 200 on a session that already holds an           *)
(* authorization overwrites it: the session then holds the username of the *)
(* login and a token issued at the time of the login for that username and *)
(* password, and a /friends request of the session passes the gate as the  *)
(* user of the login.  Every /friends request that passes the gate is      *)
(* attributed to the user of the authorization its session holds.          *)
(***************************************************************************)
C24_LoginOverwrites ==
    [][\A sid \in Clients :
          /\ (LoginOkStep(sid) /\ last'.req.session.authorization # Undefined)
             => LET body == last'.req.body
                    token == sessions'[sid].authorization.accessToken
                IN  /\ sessions'[sid].stored
                    /\ sessions'[sid].authorization.username = body.username
                    /\ token = jwtSign([username |-> body.username,
                                        data |-> body.password],
                                       SignSecret, ExpiresIn)
                    /\ token.iat = now
                    /\ PassesGate(sid)'
                    /\ authMiddleware(LoadSession(sid))'.user.username
                          = body.username
          /\ (FriendsStep(sid) /\ last'.gate = "next")
             => last'.user.username = sessions[sid].authorization.username]_vars

\* a login as "Bob" was answered 200 on a session that held an authorization
\* of "bob" with an older token
C24_Witness ==
    /\ last.req.op = "login"
    /\ last.resp.status = 200
    /\ last.req.session.authorization # Undefined
    /\ last.req.session.authorization.username # last.req.body.username
    /\ sessions[last.req.sid].stored
    /\ sessions[last.req.sid].authorization.accessToken.iat
          > last.req.session.authorization.accessToken.iat

C26_FailuresHandled ==
    [][now' = now
       => LET resp == last'.resp
          IN  /\ {"status", "success"} \subseteq DOMAIN resp
              /\ resp.status \in {200, 201, 400, 401, 403, 404, 409, 500}
              /\ resp.status \notin {200, 201}
                 => /\ DOMAIN resp = {"status", "success", "message"}
                    /\ resp.success = FALSE
                    /\ resp.message \in STRING
                    /\ users' = users
                    /\ friends' = friends
                    /\ inherited' = inherited
              /\ (/\ Authorized("create")
                  /\ last'.req.body.email.t = "number"
                  /\ \A f \in Fields : Truthy(last'.req.body[f]))
                 => resp.status = 500]_vars

\* a create whose email is a number, with every other field present, was
\* answered 500 with success false and a message
C26_Witness ==
    /\ last.req.op = "create"
    /\ last.gate = "next"
    /\ last.req.body.email.t = "number"
    /\ \A f \in Fields : Truthy(last.req.body[f])
    /\ last.resp = Fail(500, "Internal server error while creating friend")

(***************************************************************************)
(* C27.  The Friend Store changes only in a step that handles a create, an *)
(* update or a delete which passed the gate and is answered with success.  *)
(* Register, login, logout, health, the list, a get, and every /friends    *)
(* request that the gate rejects leave it unchanged.                       *)
(***************************************************************************)
C27_StoreChangesOnlyAuthorized ==
    [][/\ friends' # friends
          => /\ last'.req.op \in {"create", "update", "delete"}
             /\ last'.gate = "next"
             /\ last'.resp.status \in {200, 201}
       /\ (now' = now /\ last'.req.op \in {"register", "login", "logout",
                                            "health", "getAll", "get"})
          => friends' = friends
       /\ (now' = now /\ last'.req.op \in FriendOps /\ last'.gate # "next")
          => friends' = friends]_vars

\* the gate rejected a create of an email that is not in the store, and
\* the email is still not in it
C27_Witness ==
    /\ last.req.op = "create"
    /\ last.gate \in {"401", "403"}
    /\ last.req.body = NewFriend
    /\ New \notin DOMAIN friends
    /\ friends = InitialFriends

(***************************************************************************)
(* C28.  The existence check and the write of a create are one step: a     *)
(* create of a well-formed email that passed the gate is answered 201 and  *)
(* stores its record exactly when the email is not in the store, and is    *)
(* answered 400 (conflict) with the store unchanged when it is.  So of two *)
(* creates of the same new email by two clients, in either order, the      *)
(* first is answered 201, the second 400, and the stored record is the one *)
(* of the first.                                                           *)
(***************************************************************************)
C28_CreateAtomic ==
    [][(/\ Authorized("create")
        /\ \A f \in Fields : Truthy(last'.req.body[f])
        /\ last'.req.body.email.t = "string"
        /\ ContainsBoth(last'.req.body.email.s))
       => LET body == last'.req.body
              email == KeyOf(body.email)
          IN  /\ email \notin DOMAIN friends
                 => /\ last'.resp.status = 201
                    /\ friends' = (email :> RecordOf(body)) @@ friends
              /\ email \in DOMAIN friends
                 => /\ last'.resp.status = 400
                    /\ friends' = friends
              /\ (/\ last.req.op = "create"
                  /\ last.gate = "next"
                  /\ last.resp.status = 201
                  /\ last.req.body.email = body.email
                  /\ last.req.sid # last'.req.sid)
                 => /\ last'.resp.status = 400
                    /\ friends'[email] = RecordOf(last.req.body)
                    /\ friends'[email] # RecordOf(body)]_vars

\* the create of client c2 was answered 400 and the store holds the record
\* that the create of client c1 carried
C28_Witness ==
    /\ last.req.op = "create"
    /\ last.req.sid = "c2"
    /\ last.gate = "next"
    /\ last.req.body = RaceBody("c2")
    /\ last.resp.status = 400
    /\ New \in DOMAIN friends
    /\ friends[New] = RecordOf(RaceBody("c1"))

(***************************************************************************)
(* C29.  Whenever a /friends request passes the gate, the identity         *)
(* attached to it names a registered user, its username is the username    *)
(* the session holds and the username in the session's token, and its      *)
(* data is the data in the token.  The authorization of a session comes    *)
(* into being or changes only in a login answered 200, which stores the    *)
(* username of the login and a token with that username and, as data, the  *)
(* password the login supplied; so the data of the identity is that        *)
(* password.                                                               *)
(***************************************************************************)
C29_IdentityOfAuthorized ==
    [][\A sid \in Clients :
          /\ (FriendsStep(sid) /\ last'.gate = "next")
             => LET authorization == sessions[sid].authorization
                IN  /\ Registered(last'.user.username)
                    /\ last'.user.username = authorization.username
                    /\ last'.user.username = authorization.accessToken.username
                    /\ last'.user.data = authorization.accessToken.data
                    /\ sessions'[sid].authorization = authorization
          /\ LoginOkStep(sid)
             => /\ Registered(last'.req.body.username)
                /\ sessions'[sid].authorization.username
                      = last'.req.body.username
                /\ sessions'[sid].authorization.accessToken.username
                      = last'.req.body.username
                /\ sessions'[sid].authorization.accessToken.data
                      = last'.req.body.password
          /\ (/\ sessions'[sid].stored
              /\ sessions[sid].stored
                 => sessions'[sid].authorization # sessions[sid].authorization)
             => LoginOkStep(sid)]_vars

\* a /friends request passed the gate as "Bob", the user of the last of two
\* logins on the session, with the password of that login as data
C29_Witness ==
    /\ last.req.op \in FriendOps
    /\ last.gate = "next"
    /\ last.user = [username |-> Str(<<"Bob">>), data |-> Pw]
    /\ Registered(Bob)
    /\ Registered(Str(<<"Bob">>))
    /\ sessions[last.req.sid].authorization.accessToken.iat > 0

(***************************************************************************)
(* C30.  A login that fails (400 for a missing field, 401 for credentials  *)
(* that match no user) leaves the session as it was: a session that held   *)
(* an authorization holds the same username and token afterwards, and if   *)
(* it passed the gate before it passes it afterwards as the same user; a   *)
(* client without a session has none afterwards.                           *)
(***************************************************************************)
C30_FailedLoginKeepsSession ==
    [][\A sid \in Clients :
          (/\ Handles("login")
           /\ last'.req.sid = sid
           /\ last'.resp.status # 200)
          => /\ last'.resp.status \in {400, 401}
             /\ last'.req.session.authorization # Undefined
                => /\ sessions'[sid].stored
                   /\ sessions'[sid].authorization
                         = last'.req.session.authorization
                   /\ sessions'[sid].authorization
                         = sessions[sid].authorization
                   /\ PassesGate(sid)
                      => /\ PassesGate(sid)'
                         /\ authMiddleware(LoadSession(sid))'.user
                               = authMiddleware(LoadSession(sid)).user
             /\ last'.req.session.authorization = Undefined
                => ~sessions'[sid].stored]_vars

\* a login with a wrong password was answered 401 on a session that holds
\* an authorization, which is still there and passes the gate
C30_Witness ==
    /\ last.req.op = "login"
    /\ last.resp.status = 401
    /\ last.req.session.authorization # Undefined
    /\ sessions[last.req.sid].stored
    /\ sessions[last.req.sid].authorization = last.req.session.authorization
    /\ PassesGate(last.req.sid)
    /\ authMiddleware(LoadSession(last.req.sid)).user.username
          = last.req.session.authorization.username

(***************************************************************************)
(* C31.  The Friend Store is one store for all users: the response to a    *)
(* /friends request that passed the gate, and the store after it, are      *)
(* those the handler computes from the store and the request alone,        *)
(* whoever the authenticated user is.  So a record that one user created   *)
(* is returned to another user who gets it, is changed when another user   *)
(* updates it, and is removed when another user deletes it.                *)
(***************************************************************************)
C31_SharedStore ==
    [][(now' = now /\ last'.req.op \in FriendOps /\ last'.gate = "next")
       => /\ last'.resp = Handled(last'.req).resp
          /\ friends' = Handled(last'.req).friends
          /\ (/\ last.req.op = "create"
              /\ last.gate = "next"
              /\ last.resp.status = 201
              /\ last.user.username # last'.user.username
              /\ last'.req.op \in {"get", "update", "delete"}
              /\ last'.req.email = KeyOf(last.req.body.email))
             => LET email == last'.req.email
                    record == RecordOf(last.req.body)
                IN  /\ last'.resp.status = 200
                    /\ last'.req.op = "get"
                       => last'.resp.data = record
                    /\ last'.req.op = "update"
                       => /\ friends'[email]
                               = [record EXCEPT !.firstName =
                                     last'.req.body.firstName]
                          /\ last'.resp.data = friends'[email]
                    /\ last'.req.op = "delete"
                       => /\ email \notin DOMAIN friends'
                          /\ last'.resp.data = record]_vars

\* user "Bob" deleted the record that user "bob" created, and was handed
\* that record
C31_Witness ==
    /\ last.req.op = "delete"
    /\ last.gate = "next"
    /\ last.user.username = Str(<<"Bob">>)
    /\ last.resp.status = 200
    /\ last.resp.data.firstName = Str(<<"c1">>)
    /\ New \notin DOMAIN friends

====
